---- MODULE Spec2Model ----
(***************************************************************************)
(* Model of corporate/views/billing_page.py: the three billing-page        *)
(* resolvers (billing_page, remote_realm_billing_page,                     *)
(* remote_server_billing_page) and the three plan-update endpoints         *)
(* (update_plan, update_plan_for_remote_realm,                             *)
(* update_plan_for_remote_server).                                         *)
(*                                                                         *)
(* The collaborators the views call but which live outside this file       *)
(* (validators, decorators, on_paid_plan, get_billing_page_context,        *)
(* do_update_plan) are modelled from the design document.                  *)
(***************************************************************************)
EXTENDS Integers, FiniteSets, Sequences, TLC

\* ---------------------------------------------------------------- bounds
\* Largest licence count that appears in a stored plan or in a request.
MaxLicenses == 2
\* Number of seats currently in use on the account (the licence floor).
SeatCount == 1

\* ------------------------------------------------------------ vocabulary
Kinds == {"realm", "remote_realm", "remote_server"}

\* Tier class of the account's plan type.
Tiers == {"community", "limited", "paid"}

\* CustomerPlan status names.
ACTIVE == "ACTIVE"
DOWNGRADE_AT_END_OF_CYCLE == "DOWNGRADE_AT_END_OF_CYCLE"
SWITCH_TO_ANNUAL_AT_END_OF_CYCLE == "SWITCH_TO_ANNUAL_AT_END_OF_CYCLE"
SWITCH_TO_MONTHLY_AT_END_OF_CYCLE == "SWITCH_TO_MONTHLY_AT_END_OF_CYCLE"
FREE_TRIAL == "FREE_TRIAL"
DOWNGRADE_AT_END_OF_FREE_TRIAL == "DOWNGRADE_AT_END_OF_FREE_TRIAL"
ENDED == "ENDED"
\* A status that exists for internal bookkeeping but is not settable.
NEVER_STARTED == "NEVER_STARTED"

\* The lifecycle states a stored CustomerPlan row can be in.
PlanStatuses ==
    { ACTIVE, DOWNGRADE_AT_END_OF_CYCLE, SWITCH_TO_ANNUAL_AT_END_OF_CYCLE,
      SWITCH_TO_MONTHLY_AT_END_OF_CYCLE, FREE_TRIAL,
      DOWNGRADE_AT_END_OF_FREE_TRIAL, ENDED }

\* A list that also lets an internal bookkeeping status through.
ALLOWED_PLANS_API_STATUS_VALUES_EXTRA ==
    { ACTIVE, DOWNGRADE_AT_END_OF_CYCLE, SWITCH_TO_ANNUAL_AT_END_OF_CYCLE,
      SWITCH_TO_MONTHLY_AT_END_OF_CYCLE, FREE_TRIAL,
      DOWNGRADE_AT_END_OF_FREE_TRIAL, ENDED, NEVER_STARTED }

ALLOWED_PLANS_API_STATUS_VALUES ==
    { ACTIVE, DOWNGRADE_AT_END_OF_CYCLE, SWITCH_TO_ANNUAL_AT_END_OF_CYCLE,
      SWITCH_TO_MONTHLY_AT_END_OF_CYCLE, FREE_TRIAL,
      DOWNGRADE_AT_END_OF_FREE_TRIAL, ENDED }

\* Billing cadence of a plan.
BILLING_SCHEDULE_ANNUAL == "ANNUAL"
BILLING_SCHEDULE_MONTHLY == "MONTHLY"
BillingSchedules == {BILLING_SCHEDULE_ANNUAL, BILLING_SCHEDULE_MONTHLY}
\* A cadence code outside the enumeration.
BILLING_SCHEDULE_UNKNOWN == "UNKNOWN_SCHEDULE"

\* ------------------------------------------------- request parameter values
\* A request variable is absent, an integer, or JSON that is not an integer.
\* Status codes and schedule codes are integers on the wire; they are written
\* here by the name of the constant the integer stands for.
Absent == [t |-> "absent", v |-> 0]
IntV(n) == [t |-> "int", v |-> n]
NotInt == [t |-> "str", v |-> 0]
AbsentName == [t |-> "absent", v |-> "NONE"]
NameV(s) == [t |-> "int", v |-> s]
NotIntName == [t |-> "str", v |-> "NONE"]

IsAbsent(x) == x.t = "absent"
IsInt(x) == x.t = "int"

\* ------------------------------------------------------------- the records
NoCustomer == [exists |-> FALSE, sponsorship_pending |-> FALSE]
Customers == [exists : {TRUE}, sponsorship_pending : BOOLEAN]

NoPlan == [exists |-> FALSE, status |-> "NONE", licenses |-> 0,
           licenses_at_next_renewal |-> Absent, billing_schedule |-> "NONE"]
Plans == [exists : {TRUE},
          status : PlanStatuses,
          licenses : SeatCount..MaxLicenses,
          licenses_at_next_renewal : {Absent} \cup {IntV(n) : n \in SeatCount..MaxLicenses},
          billing_schedule : BillingSchedules]

\* An account: its kind (a local organization, a remote realm or a remote
\* server), its tier, its Customer (or none) and the Customer's current
\* CustomerPlan row (or none).  A CustomerPlan belongs to a Customer.
Accounts ==
    { a \in [kind : Kinds, tier : Tiers, customer : Customers \cup {NoCustomer},
             plan : Plans \cup {NoPlan}] :
        a.plan.exists => a.customer.exists }

EmptyMap == [k \in {} |-> FALSE]

\* dict.update: the keys of m override those of c.
DictUpdate(c, m) ==
    [k \in (DOMAIN c) \cup (DOMAIN m) |-> IF k \in DOMAIN m THEN m[k] ELSE c[k]]

\* c[key] = val on a dict.
Put(c, key, val) == DictUpdate(c, [k \in {key} |-> val])

VARIABLES
    acct,    \* the account's stored state: tier, Customer, CustomerPlan
    last,    \* what the last request did and what it returned
    slots,   \* the in-flight plan-update requests (concurrent runs)
    base     \* the plan as it was when the in-flight requests arrived

vars == <<acct, last, slots, base>>

\* ------------------------------------------------------------ collaborators
\* realm.plan_type / remote_realm.plan_type / remote_server.plan_type
plan_type(kind, a) ==
    IF kind = "realm"
    THEN CASE a.tier = "community" -> "PLAN_TYPE_STANDARD_FREE"
           [] a.tier = "limited" -> "PLAN_TYPE_LIMITED"
           [] OTHER -> "PLAN_TYPE_STANDARD"
    ELSE CASE a.tier = "community" -> "PLAN_TYPE_COMMUNITY"
           [] a.tier = "limited" -> "PLAN_TYPE_SELF_HOSTED"
           [] OTHER -> "PLAN_TYPE_BUSINESS"

\* get_customer_by_realm(realm) / billing_session.get_customer()
get_customer(a) == a.customer

\* billing_session.on_paid_plan(): the account's tier is one that is paid for.
on_paid_plan(a) == a.tier = "paid"

\* CustomerPlan.objects.filter(customer=customer).exists()
CustomerPlanExists(a) == a.plan.exists

\* What the end of a billing cycle does to a plan whose renewal date has
\* passed: a scheduled downgrade ends the plan, a scheduled switch changes the
\* cadence, a free trial becomes a paid plan, a renewal takes the licence count
\* scheduled for it.
make_end_of_cycle_updates_if_needed(p, due) ==
    IF ~due \/ ~p.exists THEN p
    ELSE CASE p.status = DOWNGRADE_AT_END_OF_CYCLE -> [p EXCEPT !.status = ENDED]
           [] p.status = DOWNGRADE_AT_END_OF_FREE_TRIAL -> [p EXCEPT !.status = ENDED]
           [] p.status = SWITCH_TO_ANNUAL_AT_END_OF_CYCLE ->
                [p EXCEPT !.status = ACTIVE, !.billing_schedule = BILLING_SCHEDULE_ANNUAL]
           [] p.status = SWITCH_TO_MONTHLY_AT_END_OF_CYCLE ->
                [p EXCEPT !.status = ACTIVE, !.billing_schedule = BILLING_SCHEDULE_MONTHLY]
           [] p.status = FREE_TRIAL -> [p EXCEPT !.status = ACTIVE]
           [] p.status = ACTIVE ->
                IF IsInt(p.licenses_at_next_renewal)
                THEN [p EXCEPT !.licenses = p.licenses_at_next_renewal.v]
                ELSE p
           [] OTHER -> p

\* billing_session.get_billing_page_context(): the mapping it returns.
get_billing_page_context(a, empty) ==
    IF empty THEN EmptyMap
    ELSE [has_active_plan |-> TRUE, plan_name |-> "plan"]

\* --------------------------------------------------------------- responses
\* What a view returns, with the collaborator calls it made on the way.
Render(context, lookups, paid_calls, context_calls) ==
    [response |-> "render", to |-> "corporate/billing.html", context |-> context,
     customer_lookups |-> lookups, on_paid_plan_calls |-> paid_calls,
     context_calls |-> context_calls]

HttpResponseRedirect(target, lookups, paid_calls) ==
    [response |-> "redirect", to |-> target, context |-> EmptyMap,
     customer_lookups |-> lookups, on_paid_plan_calls |-> paid_calls,
     context_calls |-> 0]

\* The remote management decorators turn away a caller without access before
\* the view body runs.
Denied ==
    [response |-> "denied", to |-> "", context |-> EmptyMap,
     customer_lookups |-> 0, on_paid_plan_calls |-> 0, context_calls |-> 0]

\* ------------------------------------------------------------ the resolvers
\* A tail that takes the collaborator's mapping in place of the context.
ShowPageReplacing(context, main_context, success_message, paid_calls) ==
    Render(IF DOMAIN main_context # {}
           THEN Put(main_context, "success_message", success_message)
           ELSE context,
           1, paid_calls, 1)

\* The tail shared by the three views: merge the billing-page context and
\* render (billing_page.py 85-90, 132-137, 189-194).
ShowPage(context, main_context, success_message, paid_calls) ==
    Render(IF DOMAIN main_context # {}
           THEN Put(DictUpdate(context, main_context), "success_message", success_message)
           ELSE context,
           1, paid_calls, 1)

\* billing_page with the access check left out.
billing_page_unchecked(a, has_billing_access, success_message, empty) ==
    LET context == [admin_access |-> has_billing_access, has_active_plan |-> FALSE,
                    org_name |-> "realm", billing_base_url |-> ""]
        customer == get_customer(a)
        pending == customer.exists /\ customer.sponsorship_pending
        paid_calls == IF pending THEN 1 ELSE 0
        context2 == IF pending THEN Put(context, "sponsorship_pending", TRUE) ELSE context
    IN  IF plan_type("realm", a) = "PLAN_TYPE_STANDARD_FREE"
        THEN HttpResponseRedirect("sponsorship_request", 0, 0)
        ELSE IF pending /\ ~on_paid_plan(a)
        THEN HttpResponseRedirect("sponsorship_request", 1, 1)
        ELSE IF plan_type("realm", a) = "PLAN_TYPE_LIMITED"
        THEN HttpResponseRedirect("plans", 1, paid_calls)
        ELSE IF ~customer.exists
        THEN HttpResponseRedirect("upgrade_page", 1, paid_calls)
        ELSE IF ~CustomerPlanExists(a)
        THEN HttpResponseRedirect("upgrade_page", 1, paid_calls)
        ELSE ShowPage(context2, get_billing_page_context(a, empty), success_message, paid_calls)

\* billing_page (billing_page.py 42-90)
billing_page(a, has_billing_access, success_message, empty) ==
    LET context == [admin_access |-> has_billing_access, has_active_plan |-> FALSE,
                    org_name |-> "realm", billing_base_url |-> ""]
        customer == get_customer(a)
        pending == customer.exists /\ customer.sponsorship_pending
        paid_calls == IF pending THEN 1 ELSE 0
        context2 == IF pending THEN Put(context, "sponsorship_pending", TRUE) ELSE context
    IN  IF ~has_billing_access
        THEN Render(context, 0, 0, 0)
        ELSE IF plan_type("realm", a) = "PLAN_TYPE_STANDARD_FREE"
        THEN HttpResponseRedirect("sponsorship_request", 0, 0)
        ELSE IF pending /\ ~on_paid_plan(a)
        THEN HttpResponseRedirect("sponsorship_request", 1, 1)
        ELSE IF plan_type("realm", a) = "PLAN_TYPE_LIMITED"
        THEN HttpResponseRedirect("plans", 1, paid_calls)
        ELSE IF ~customer.exists
        THEN HttpResponseRedirect("upgrade_page", 1, paid_calls)
        ELSE IF ~CustomerPlanExists(a)
        THEN HttpResponseRedirect("upgrade_page", 1, paid_calls)
        ELSE ShowPage(context2, get_billing_page_context(a, empty), success_message, paid_calls)

\* remote_realm_billing_page (billing_page.py 95-137), the view body
remote_realm_billing_page(a, has_billing_access, success_message, empty) ==
    LET context == [admin_access |-> has_billing_access, has_active_plan |-> FALSE,
                    org_name |-> "remote_realm", billing_base_url |-> "/realm/uuid"]
        customer == get_customer(a)
        pending == customer.exists /\ customer.sponsorship_pending
        paid_calls == IF pending THEN 1 ELSE 0
        context2 == IF pending THEN Put(context, "sponsorship_pending", TRUE) ELSE context
    IN  IF plan_type("remote_realm", a) = "PLAN_TYPE_COMMUNITY"
        THEN HttpResponseRedirect("remote_realm_sponsorship_page", 0, 0)
        ELSE IF pending /\ ~on_paid_plan(a)
        THEN HttpResponseRedirect("remote_realm_sponsorship_page", 1, 1)
        ELSE IF plan_type("remote_realm", a) = "PLAN_TYPE_SELF_HOSTED"
        THEN HttpResponseRedirect("remote_realm_plans_page", 1, paid_calls)
        ELSE IF ~customer.exists
        THEN HttpResponseRedirect("remote_realm_upgrade_page", 1, paid_calls)
        ELSE IF ~CustomerPlanExists(a)
        THEN HttpResponseRedirect("remote_realm_upgrade_page", 1, paid_calls)
        ELSE ShowPage(context2, get_billing_page_context(a, empty), success_message, paid_calls)

\* remote_server_billing_page without the CustomerPlan existence test.
remote_server_billing_page_any_customer(a, has_billing_access, success_message, empty) ==
    LET context == [admin_access |-> has_billing_access, has_active_plan |-> FALSE,
                    org_name |-> "remote_server", billing_base_url |-> "/server/uuid"]
        customer == get_customer(a)
        pending == customer.exists /\ customer.sponsorship_pending
        paid_calls == IF pending THEN 1 ELSE 0
        context2 == IF pending THEN Put(context, "sponsorship_pending", TRUE) ELSE context
    IN  IF plan_type("remote_server", a) = "PLAN_TYPE_COMMUNITY"
        THEN HttpResponseRedirect("remote_server_sponsorship_page", 0, 0)
        ELSE IF pending /\ ~on_paid_plan(a)
        THEN HttpResponseRedirect("remote_server_sponsorship_page", 1, 1)
        ELSE IF \/ plan_type("remote_server", a) = "PLAN_TYPE_SELF_HOSTED"
                \/ ~customer.exists
        THEN HttpResponseRedirect("remote_server_upgrade_page", 1, paid_calls)
        ELSE ShowPage(context2, get_billing_page_context(a, empty), success_message, paid_calls)

\* remote_server_billing_page (billing_page.py 142-194), the view body
remote_server_billing_page(a, has_billing_access, success_message, empty) ==
    LET context == [admin_access |-> has_billing_access, has_active_plan |-> FALSE,
                    org_name |-> "remote_server", billing_base_url |-> "/server/uuid"]
        customer == get_customer(a)
        pending == customer.exists /\ customer.sponsorship_pending
        paid_calls == IF pending THEN 1 ELSE 0
        context2 == IF pending THEN Put(context, "sponsorship_pending", TRUE) ELSE context
    IN  IF plan_type("remote_server", a) = "PLAN_TYPE_COMMUNITY"
        THEN HttpResponseRedirect("remote_server_sponsorship_page", 0, 0)
        ELSE IF pending /\ ~on_paid_plan(a)
        THEN HttpResponseRedirect("remote_server_sponsorship_page", 1, 1)
        ELSE IF \/ plan_type("remote_server", a) = "PLAN_TYPE_SELF_HOSTED"
                \/ ~customer.exists
                \/ ~CustomerPlanExists(a)
        THEN HttpResponseRedirect("remote_server_upgrade_page", 1, paid_calls)
        ELSE ShowPage(context2, get_billing_page_context(a, empty), success_message, paid_calls)

\* authenticated_remote_realm_management_endpoint /
\* authenticated_remote_server_management_endpoint around a view body.
authenticated_remote_management_endpoint(has_billing_access, body) ==
    IF has_billing_access THEN body ELSE Denied

\* The view of an account kind, decorators included.
View(kind, a, has_billing_access, success_message, empty) ==
    CASE kind = "realm" -> billing_page(a, has_billing_access, success_message, empty)
      [] kind = "remote_realm" ->
            authenticated_remote_management_endpoint(has_billing_access,
                remote_realm_billing_page(a, has_billing_access, success_message, empty))
      [] kind = "remote_server" ->
            authenticated_remote_management_endpoint(has_billing_access,
                remote_server_billing_page(a, has_billing_access, success_message, empty))

\* The BillingState a response stands for.
BillingState(r) ==
    CASE r.response = "denied" -> "NoAccess"
      [] r.response = "render" ->
            IF r.context_calls > 0 THEN "ShowBillingPage" ELSE "NoAccess"
      [] r.to \in {"sponsorship_request", "remote_realm_sponsorship_page",
                   "remote_server_sponsorship_page"} -> "RedirectSponsorship"
      [] r.to \in {"plans", "remote_realm_plans_page", "remote_server_plans_page"} ->
            "RedirectPlansPage"
      [] OTHER -> "RedirectUpgradePage"

SuccessMessages == {"", "saved"}

\* Writes of a view whose every collaborator call applies the due updates.
ViewEffectOnLookup(a, r, due) ==
    IF r.customer_lookups > 0
    THEN [a EXCEPT !.plan = make_end_of_cycle_updates_if_needed(@, due)]
    ELSE a

\* What a view leaves in the database: nothing of its own; the one collaborator
\* that writes is get_billing_page_context (billing_page.py 50-53, 85).
ViewEffect(a, r, due) ==
    IF r.context_calls > 0
    THEN [a EXCEPT !.plan = make_end_of_cycle_updates_if_needed(@, due)]
    ELSE a

\* One request to a billing page.  The page's context collaborator applies the
\* end-of-cycle updates that are due before it reports on the plan.
Resolve(kind) ==
    \E has_billing_access \in BOOLEAN, success_message \in SuccessMessages,
       empty \in BOOLEAN, due \in BOOLEAN :
        LET r == View(kind, acct, has_billing_access, success_message, empty)
        IN  /\ acct.kind = kind
            /\ last' = [op |-> "resolve", kind |-> kind,
                        has_billing_access |-> has_billing_access,
                        success_message |-> success_message,
                        main_context_empty |-> empty,
                        state |-> BillingState(r), result |-> r]
            /\ acct' = ViewEffect(acct, r, due)
            /\ UNCHANGED <<slots, base>>

BillingPage == Resolve("realm")
RemoteRealmBillingPage == Resolve("remote_realm")
RemoteServerBillingPage == Resolve("remote_server")

NoSlots == [i \in {} |-> FALSE]

Init ==
    /\ acct \in Accounts
    /\ last = [op |-> "none"]
    /\ slots = NoSlots
    /\ base = NoPlan

Next ==
    \/ BillingPage
    \/ RemoteRealmBillingPage
    \/ RemoteServerBillingPage

Spec == Init /\ [][Next]_vars

\* ------------------------------------------------- the update entry points
\* check_int_in(possible_values): an integer that is one of the listed values.
check_int_in(possible_values, x) == IsInt(x) /\ x.v \in possible_values

\* check_int: an integer.
check_int(x) == IsInt(x)

\* The REQ declarations of update_plan, run by has_request_variables: a variable
\* that is absent takes its default None, one that is supplied must pass its
\* json_validator (billing_page.py 202-211).
ValidRequestVariables(w) ==
    /\ IsAbsent(w.status) \/ check_int_in(ALLOWED_PLANS_API_STATUS_VALUES, w.status)
    /\ IsAbsent(w.licenses) \/ check_int(w.licenses)
    /\ IsAbsent(w.licenses_at_next_renewal) \/ check_int(w.licenses_at_next_renewal)
    /\ IsAbsent(w.schedule) \/ check_int(w.schedule)

\* UpdatePlanRequest(status=..., licenses=..., ...)
UpdatePlanRequest(w) ==
    [status |-> w.status, licenses |-> w.licenses,
     licenses_at_next_renewal |-> w.licenses_at_next_renewal, schedule |-> w.schedule]

\* The transitions a plan-status request may make from a plan's status; asking
\* for the status the plan already has changes nothing.
LegalTargets(current) ==
    {current} \cup
    CASE current = ACTIVE ->
            {DOWNGRADE_AT_END_OF_CYCLE, SWITCH_TO_ANNUAL_AT_END_OF_CYCLE,
             SWITCH_TO_MONTHLY_AT_END_OF_CYCLE}
      [] current = FREE_TRIAL -> {DOWNGRADE_AT_END_OF_FREE_TRIAL}
      [] OTHER -> {}

LicenseCountOk(x) == IsAbsent(x) \/ (x.v >= 0 /\ x.v >= SeatCount)

\* The error do_update_plan raises for a request on a plan, or "ok".
PlanUpdateError(a, req, io_ok) ==
    IF ~(a.customer.exists /\ a.plan.exists) THEN "NoActivePlan"
    ELSE IF /\ ~IsAbsent(req.schedule)
            /\ ~(IsAbsent(req.status) /\ IsAbsent(req.licenses)
                   /\ IsAbsent(req.licenses_at_next_renewal))
    THEN "ConflictingUpdate"
    ELSE IF \/ ~IsAbsent(req.status) /\ req.status.v \notin PlanStatuses
            \/ ~IsAbsent(req.schedule) /\ req.schedule.v \notin BillingSchedules
    THEN "ContractViolation"
    ELSE IF ~IsAbsent(req.status) /\ req.status.v \notin LegalTargets(a.plan.status)
    THEN "IllegalTransition"
    ELSE IF ~LicenseCountOk(req.licenses) \/ ~LicenseCountOk(req.licenses_at_next_renewal)
    THEN "InvalidLicenseCount"
    ELSE IF ~IsAbsent(req.schedule) /\ a.plan.status # ACTIVE
    THEN "IllegalTransition"
    ELSE IF ~io_ok THEN "PersistenceFailure"
    ELSE "ok"

\* The plan after a request has been applied in full.
AppliedPlan(p, req) ==
    [p EXCEPT
        !.status = IF IsAbsent(req.status) THEN @ ELSE req.status.v,
        !.licenses = IF IsAbsent(req.licenses) THEN @ ELSE req.licenses.v,
        !.licenses_at_next_renewal =
            IF IsAbsent(req.licenses_at_next_renewal) THEN @ ELSE req.licenses_at_next_renewal,
        !.billing_schedule = IF IsAbsent(req.schedule) THEN @ ELSE req.schedule.v]

\* billing_session.do_update_plan(update_plan_request): all or nothing.
do_update_plan(a, req, io_ok) ==
    LET e == PlanUpdateError(a, req, io_ok)
    IN  [error |-> e, plan |-> IF e = "ok" THEN AppliedPlan(a.plan, req) ELSE a.plan]

\* What an endpoint did: whether do_update_plan was invoked, how it ended,
\* the response, and the plan it left.
Rejected(a, why) ==
    [invoked |-> FALSE, engine |-> "none", response |-> why, plan |-> a.plan]

\* A body that answers json_success whatever do_update_plan raised.
UpdateBodySwallowing(a, w, io_ok) ==
    LET e == do_update_plan(a, UpdatePlanRequest(w), io_ok)
    IN  [invoked |-> TRUE, engine |-> e.error, response |-> "json_success", plan |-> e.plan]

\* The body shared by the three endpoints: build the request, call
\* do_update_plan, answer json_success; an error raised by do_update_plan
\* propagates to the caller (billing_page.py 213-221, 240-247, 266-273).
UpdateBody(a, w, io_ok) ==
    LET e == do_update_plan(a, UpdatePlanRequest(w), io_ok)
    IN  [invoked |-> TRUE, engine |-> e.error,
         response |-> IF e.error = "ok" THEN "json_success" ELSE e.error,
         plan |-> e.plan]

\* update_plan: require_billing_access, then has_request_variables, then the body.
update_plan(a, has_billing_access, w, io_ok) ==
    IF ~has_billing_access THEN Rejected(a, "AccessDenied")
    ELSE IF ~ValidRequestVariables(w) THEN Rejected(a, "BadRequest")
    ELSE UpdateBody(a, w, io_ok)

\* update_plan_for_remote_realm: has_request_variables, then the remote realm
\* decorator, then the body.
update_plan_for_remote_realm(a, has_billing_access, w, io_ok) ==
    IF ~ValidRequestVariables(w) THEN Rejected(a, "BadRequest")
    ELSE IF ~has_billing_access THEN Rejected(a, "AccessDenied")
    ELSE UpdateBody(a, w, io_ok)

\* update_plan_for_remote_server: has_request_variables, then the remote
\* server decorator, then the body.
update_plan_for_remote_server(a, has_billing_access, w, io_ok) ==
    IF ~ValidRequestVariables(w) THEN Rejected(a, "BadRequest")
    ELSE IF ~has_billing_access THEN Rejected(a, "AccessDenied")
    ELSE UpdateBody(a, w, io_ok)

Endpoint(kind, a, has_billing_access, w, io_ok) ==
    CASE kind = "realm" -> update_plan(a, has_billing_access, w, io_ok)
      [] kind = "remote_realm" -> update_plan_for_remote_realm(a, has_billing_access, w, io_ok)
      [] kind = "remote_server" -> update_plan_for_remote_server(a, has_billing_access, w, io_ok)

\* The request variables tried.
StatusInputs == {AbsentName, NotIntName} \cup {NameV(x) : x \in PlanStatuses \cup {NEVER_STARTED}}
LicenseInputs == {Absent, NotInt, IntV(-1), IntV(0), IntV(MaxLicenses)}
RenewalInputs == {Absent, IntV(-1), IntV(SeatCount)}
ScheduleInputs ==
    {AbsentName, NotIntName} \cup {NameV(x) : x \in BillingSchedules \cup {BILLING_SCHEDULE_UNKNOWN}}

NoVariables ==
    [status |-> AbsentName, licenses |-> Absent, licenses_at_next_renewal |-> Absent,
     schedule |-> AbsentName]

\* Requests with one variable supplied, and a few with two.
WireRequests ==
    {NoVariables}
    \cup {[NoVariables EXCEPT !.status = x] : x \in StatusInputs}
    \cup {[NoVariables EXCEPT !.licenses = x] : x \in LicenseInputs}
    \cup {[NoVariables EXCEPT !.licenses_at_next_renewal = x] : x \in RenewalInputs}
    \cup {[NoVariables EXCEPT !.schedule = x] : x \in ScheduleInputs}
    \cup {[NoVariables EXCEPT !.status = NameV(DOWNGRADE_AT_END_OF_CYCLE),
                              !.schedule = NameV(BILLING_SCHEDULE_ANNUAL)],
          [NoVariables EXCEPT !.status = NameV(DOWNGRADE_AT_END_OF_CYCLE),
                              !.licenses = IntV(-1)],
          [NoVariables EXCEPT !.status = NameV(NEVER_STARTED),
                              !.licenses = IntV(MaxLicenses)],
          [NoVariables EXCEPT !.licenses = IntV(MaxLicenses),
                              !.licenses_at_next_renewal = IntV(SeatCount)]}

\* The callers tried: with or without billing access, with the persistence
\* collaborator working or failing.
Callers == {<<TRUE, TRUE>>, <<TRUE, FALSE>>, <<FALSE, TRUE>>}

\* One request to an update endpoint, start to finish.
UpdateRequest(kind) ==
    \E w \in WireRequests, c \in Callers :
        LET r == Endpoint(kind, acct, c[1], w, c[2])
        IN  /\ acct.kind = kind
            /\ last' = [op |-> "update", kind |-> kind, has_billing_access |-> c[1],
                        wire |-> w, invoked |-> r.invoked, engine |-> r.engine,
                        response |-> r.response]
            /\ acct' = [acct EXCEPT !.plan = r.plan]
            /\ UNCHANGED <<slots, base>>

UpdatePlan == UpdateRequest("realm")
UpdatePlanForRemoteRealm == UpdateRequest("remote_realm")
UpdatePlanForRemoteServer == UpdateRequest("remote_server")

\* The accounts the update endpoints are run on.
BillingAccounts == {a \in Accounts : a.tier = "paid" /\ ~a.customer.sponsorship_pending}

UpdInit ==
    /\ acct \in BillingAccounts
    /\ last = [op |-> "none"]
    /\ slots = NoSlots
    /\ base = NoPlan

UpdNext ==
    \/ UpdatePlan
    \/ UpdatePlanForRemoteRealm
    \/ UpdatePlanForRemoteServer

UpdSpec == UpdInit /\ [][UpdNext]_vars

\* ------------------------------------------------ concurrent plan updates
\* Two update requests for the same account, each a process of its own.  The
\* request variables are validated, then do_update_plan reads the CustomerPlan
\* row, and writes it back if the row is still the one it read; if not it
\* reads again.
Requests == {1, 2}

\* The requests raced against each other.
RacingRequests ==
    {[NoVariables EXCEPT !.status = NameV(DOWNGRADE_AT_END_OF_CYCLE)],
     [NoVariables EXCEPT !.status = NameV(SWITCH_TO_ANNUAL_AT_END_OF_CYCLE)],
     [NoVariables EXCEPT !.status = NameV(DOWNGRADE_AT_END_OF_FREE_TRIAL)],
     [NoVariables EXCEPT !.status = NameV(NEVER_STARTED)],
     [NoVariables EXCEPT !.licenses = IntV(MaxLicenses)],
     [NoVariables EXCEPT !.licenses = IntV(-1)],
     [NoVariables EXCEPT !.licenses_at_next_renewal = IntV(SeatCount)],
     [NoVariables EXCEPT !.schedule = NameV(BILLING_SCHEDULE_MONTHLY)]}

\* A write that does not look at the row again.
CommitAllowedBlind(snapshot, current) == TRUE

\* The optimistic-concurrency check of do_update_plan: the row is written only
\* if it is still the row that was read.
CommitAllowed(snapshot, current) == snapshot = current

\* The decorators and the validators of the endpoint.
Boundary(i) ==
    /\ slots[i].pc = "start"
    /\ slots' = IF ValidRequestVariables(slots[i].wire)
                THEN [slots EXCEPT ![i].pc = "engine"]
                ELSE [slots EXCEPT ![i].pc = "done", ![i].response = "BadRequest"]
    /\ UNCHANGED <<acct, last, base>>

\* do_update_plan reads the CustomerPlan row.
EngineRead(i) ==
    /\ slots[i].pc = "engine"
    /\ slots' = [slots EXCEPT ![i].pc = "read", ![i].snapshot = acct.plan]
    /\ UNCHANGED <<acct, last, base>>

\* do_update_plan writes the row it computed from what it read, and the view
\* answers.
EngineCommit(i) ==
    /\ slots[i].pc = "read"
    /\ CommitAllowed(slots[i].snapshot, acct.plan)
    /\ LET r == UpdateBody([acct EXCEPT !.plan = slots[i].snapshot], slots[i].wire,
                           slots[i].io_ok)
       IN  /\ acct' = [acct EXCEPT !.plan = r.plan]
           /\ slots' = [slots EXCEPT ![i].pc = "done", ![i].response = r.response]
    /\ UNCHANGED <<last, base>>

\* The row changed since it was read: read it again.
EngineRetry(i) ==
    /\ slots[i].pc = "read"
    /\ ~CommitAllowed(slots[i].snapshot, acct.plan)
    /\ slots' = [slots EXCEPT ![i].pc = "engine", ![i].retried = TRUE]
    /\ UNCHANGED <<acct, last, base>>

ConcInit ==
    /\ acct \in BillingAccounts
    /\ last = [op |-> "none"]
    /\ base = acct.plan
    /\ slots \in [Requests -> [wire : RacingRequests, io_ok : BOOLEAN, pc : {"start"},
                              snapshot : {NoPlan}, retried : {FALSE},
                              response : {"none"}]]

ConcNext ==
    \E i \in Requests :
        \/ Boundary(i)
        \/ EngineRead(i)
        \/ EngineCommit(i)
        \/ EngineRetry(i)

ConcSpec == ConcInit /\ [][ConcNext]_vars

\* ------------------------------------------------ properties of the resolvers
IsResolve == last.op = "resolve"

Pending(a) == a.customer.exists /\ a.customer.sponsorship_pending

HasFlag(c, key) == key \in DOMAIN c /\ c[key] = TRUE

\* The outcome the decision order of the design gives: first match wins.
DecisionOrder(a, has_billing_access) ==
    IF ~has_billing_access THEN "NoAccess"
    ELSE IF a.tier = "community" THEN "RedirectSponsorship"
    ELSE IF Pending(a) /\ ~on_paid_plan(a) THEN "RedirectSponsorship"
    ELSE IF a.tier = "limited" THEN "RedirectPlansPage"
    ELSE IF ~a.customer.exists THEN "RedirectUpgradePage"
    ELSE IF ~a.plan.exists THEN "RedirectUpgradePage"
    ELSE "ShowBillingPage"

\* C1: every resolution, by any of the three views and for every combination
\* of the inputs, returns the outcome of the first matching step of the fixed
\* decision order (NoAccess, community tier, pending sponsorship off a paid
\* plan, limited tier to the plans page, no Customer, no CustomerPlan, page).
C1_FirstMatchWins ==
    IsResolve => last.state = DecisionOrder(acct, last.has_billing_access)

\* C2: on the same inputs the three views return the same kind of
\* BillingState; in particular a limited-tier account goes to a plans page in
\* all three.
C2_SameDecisionAcrossKinds ==
    IsResolve =>
        \A k \in Kinds :
            BillingState(View(k, acct, last.has_billing_access, last.success_message,
                              last.main_context_empty)) = last.state

\* C5 as stated: a Customer with a pending sponsorship on a paid plan always
\* gets the billing page, with the sponsorship_pending flag in its context.
C5_PendingOnPaidPlanShowsPage ==
    (IsResolve /\ Pending(acct) /\ on_paid_plan(acct)) =>
        /\ last.state = "ShowBillingPage"
        /\ HasFlag(last.result.context, "sponsorship_pending")

\* C5 amended: a caller with billing access, on an account of a paid tier
\* whose Customer has a pending sponsorship and at least one CustomerPlan row,
\* gets the billing page, and the sponsorship_pending flag set before the
\* context collaborator ran is still true in the merged context.
C5_PendingOnPaidPlanWithPlanShowsPage ==
    (IsResolve /\ last.has_billing_access /\ Pending(acct) /\ on_paid_plan(acct)
       /\ acct.tier = "paid" /\ acct.plan.exists) =>
        /\ last.state = "ShowBillingPage"
        /\ HasFlag(last.result.context, "sponsorship_pending")

C5_Witness ==
    /\ IsResolve /\ last.has_billing_access /\ Pending(acct) /\ on_paid_plan(acct)
    /\ acct.plan.exists /\ ~last.main_context_empty
    /\ last.kind = "remote_server"
    /\ last.state = "ShowBillingPage"
    /\ HasFlag(last.result.context, "has_active_plan")
    /\ HasFlag(last.result.context, "sponsorship_pending")

\* C6: a caller without billing access gets NoAccess and nothing else: no
\* redirect, no Customer lookup, no call of the billing-page context
\* collaborator, whatever the tier, Customer and CustomerPlan are.
C6_NoAccessOnly ==
    (IsResolve /\ ~last.has_billing_access) =>
        /\ last.state = "NoAccess"
        /\ last.result.response # "redirect"
        /\ last.result.customer_lookups = 0
        /\ last.result.on_paid_plan_calls = 0
        /\ last.result.context_calls = 0

C6_Witness ==
    /\ IsResolve /\ ~last.has_billing_access /\ last.kind = "realm"
    /\ acct.tier = "community" /\ Pending(acct) /\ acct.plan.exists
    /\ last.state = "NoAccess" /\ last.result.response = "render"

C10_PageGuard ==
    IsResolve =>
        /\ last.result.context_calls > 0 =>
              /\ plan_type(last.kind, acct) \notin
                    {"PLAN_TYPE_STANDARD_FREE", "PLAN_TYPE_COMMUNITY",
                     "PLAN_TYPE_LIMITED", "PLAN_TYPE_SELF_HOSTED"}
              /\ acct.customer.exists
              /\ acct.plan.exists
              /\ (last.kind = "realm" => last.has_billing_access)
        /\ (last.state = "ShowBillingPage") = (last.result.context_calls > 0)
        /\ HasFlag(last.result.context, "sponsorship_pending") =>
              /\ Pending(acct)
              /\ last.result.on_paid_plan_calls > 0
              /\ on_paid_plan(acct)
        /\ "success_message" \in DOMAIN last.result.context => ~last.main_context_empty

C10_Witness ==
    /\ IsResolve /\ last.state = "ShowBillingPage"
    /\ HasFlag(last.result.context, "sponsorship_pending")
    /\ "success_message" \in DOMAIN last.result.context
    /\ last.result.context.success_message = "saved"

\* ------------------------------------------- properties of the update endpoints
IsUpdate == last.op = "update"

\* The seven status values the design allows as the target of an update.
SevenStatuses ==
    {"ACTIVE", "DOWNGRADE_AT_END_OF_CYCLE", "SWITCH_TO_ANNUAL_AT_END_OF_CYCLE",
     "SWITCH_TO_MONTHLY_AT_END_OF_CYCLE", "FREE_TRIAL",
     "DOWNGRADE_AT_END_OF_FREE_TRIAL", "ENDED"}

StatusAllowed(x) == IsInt(x) /\ x.v \in SevenStatuses

\* C3: each of the three update endpoints rejects a supplied status that is not
\* one of the seven allowed values, and then do_update_plan is not invoked; a
\* supplied status is never rejected by the validators for being one of the
\* seven, so the accepted set is the same for the three endpoints.
C3_StatusValidated ==
    IsUpdate =>
        /\ (~IsAbsent(last.wire.status) /\ ~StatusAllowed(last.wire.status)) =>
              (~last.invoked /\ last.response # "json_success")
        /\ (last.has_billing_access /\ StatusAllowed(last.wire.status)
              /\ last.wire.licenses = Absent /\ last.wire.licenses_at_next_renewal = Absent
              /\ IsAbsent(last.wire.schedule)) => last.invoked

C3_Witness ==
    /\ IsUpdate /\ last.kind = "remote_server" /\ last.has_billing_access
    /\ last.wire.status = NameV(NEVER_STARTED)
    /\ acct.plan.exists
    /\ ~last.invoked /\ last.response = "BadRequest"

NonNegative(x) == IsAbsent(x) \/ (IsInt(x) /\ x.v >= 0)

\* C4: a negative licenses or licenses_at_next_renewal value, and a schedule
\* value outside the monthly/annual enumeration, never reaches do_update_plan,
\* at any of the three endpoints.
C4_DomainsValidated ==
    (IsUpdate /\ last.invoked) =>
        /\ NonNegative(last.wire.licenses)
        /\ NonNegative(last.wire.licenses_at_next_renewal)
        /\ (IsAbsent(last.wire.schedule) \/ last.wire.schedule.v \in BillingSchedules)

AllDone == DOMAIN slots = Requests /\ \A i \in Requests : slots[i].pc = "done"

\* The requests handled one after the other, i first and then j.
Serial(i, j) ==
    LET a == [acct EXCEPT !.plan = base]
        first == Endpoint(a.kind, a, TRUE, slots[i].wire, slots[i].io_ok)
        b == [a EXCEPT !.plan = first.plan]
        second == Endpoint(b.kind, b, TRUE, slots[j].wire, slots[j].io_ok)
    IN  [plan |-> second.plan, first |-> first.response, second |-> second.response]

SameAsSerial(i, j) ==
    LET r == Serial(i, j)
    IN  /\ acct.plan = r.plan
        /\ slots[i].response = r.first
        /\ slots[j].response = r.second

====
